---------------------------- MODULE Spec2Model ----------------------------
(***************************************************************************)
(* VeritasAI browser client.                                               *)
(*                                                                         *)
(* Part I  (Spec):        the query / history state machine of             *)
(*                        frontend/src/App.js and                          *)
(*                        frontend/src/components/ChatInterface.js.        *)
(* Part II (SpecExtract): the embedded-JSON extraction of                  *)
(*                        frontend/src/components/CitationsSection.js and  *)
(*                        the CitationsSection defined inside App.js.      *)
(* Part III (SpecSection): the citation section as a whole component, in   *)
(*                        both of its implementations.                     *)
(* Part IV (SpecView, SpecParser): the results view and the handlers of    *)
(*                        frontend/src/components/QueryParser.js.          *)
(* SpecSidebar:           the history sidebar on listings of any length.   *)
(* SpecSubmit:            the submission handlers of App.js and            *)
(*                        QueryParser.js side by side.                     *)
(***************************************************************************)
EXTENDS Integers, Sequences, FiniteSets, TLC

(***************************************************************************)
(* Bounds                                                                  *)
(***************************************************************************)
\* largest number of GET /api/user/results/by-query invocations in one run
MaxCalls == 2
\* largest number of POST /api/pdf/upload requests in flight at once
MaxUploads == 1
\* longest citation text, counted in tokens
MaxTextLen == 5
\* longest individual_citation_analysis list of a citation payload
MaxCitations == 2
\* longest cases list of a response whose view is computed
MaxCases == 3

(***************************************************************************)
(* Part I : App + ChatInterface                                            *)
(***************************************************************************)
VARIABLES
  query,            \* App.js:7    useState('')
  results,          \* App.js:8    useState(null)
  loading,          \* App.js:9    useState(false)
  error,            \* App.js:10   useState(null)
  isAuthenticated,  \* App.js:13   useState(false)
  authLoading,      \* App.js:14   useState(true)
  mode,             \* ChatInterface.js:9   useState('query')
  history,          \* ChatInterface.js:10  useState([])
  historyLoading,   \* ChatInterface.js:11  useState(false)
  calls,            \* the by-query requests issued so far, in issue order
  submitReq,        \* the POST /api/query in flight (its body), or NoRequest
  historyReqs,      \* number of GET /api/user/history requests in flight
  pdfUploads,       \* number of POST /api/pdf/upload requests in flight
  sidebar           \* ChatInterface.js:97-104  the entries the sidebar lists

\* Part II : CitationsSection
VARIABLES
  rawData,          \* CitationsSection.js:21  content.raw_result
  citationData,     \* CitationsSection.js:16  let citationData = null
  rendered          \* whether CitationsSection has run on rawData

appVars == <<query, results, loading, error, isAuthenticated, authLoading,
             mode, history, historyLoading, calls, submitReq, historyReqs,
             pdfUploads, sidebar>>

extractVars == <<rawData, citationData, rendered>>

\* Part III : CitationsSection as a whole component
VARIABLES
  content,          \* CitationsSection.js:13  the content prop
  sectionData,      \* CitationsSection.js:16  citationData after the try
  sectionView,      \* what the component returned, or NotRendered
  inlineData,       \* App.js:201  citationData after the try
  inlineView        \* what the CitationsSection inside App returned

sectionVars == <<content, sectionData, sectionView, inlineData, inlineView>>

\* Part IV : QueryParser
VARIABLES
  parserQuery,      \* QueryParser.js:5   useState("")            (query)
  result,           \* QueryParser.js:6   useState(null)
  page,             \* QueryParser.js:7   useState(1)
  perPage,          \* QueryParser.js:8   useState(10)
  parserLoading,    \* QueryParser.js:13  useState(false)         (loading)
  parserError,      \* QueryParser.js:14  useState("")            (error)
  courtFilter,      \* QueryParser.js:9   useState("")
  minCitations,     \* QueryParser.js:10  useState(0)
  sortBy,           \* QueryParser.js:11  useState("Newest")
  expanded,         \* QueryParser.js:12  useState({}), as the set of true keys
  parserReq,        \* the POST /query in flight (its body), or NoRequest
  shown,            \* QueryParser.js:159-236  what the results area renders
  recomputed        \* whether the last render called sortedAndFilteredCases

parserVars == <<parserQuery, result, page, perPage, parserLoading,
                parserError, courtFilter, minCitations, sortBy, expanded,
                parserReq, shown, recomputed>>

nonAppVars == <<extractVars, sectionVars, parserVars>>

vars == <<appVars, extractVars, sectionVars, parserVars>>

\* JavaScript null, for the string-valued state `error`
NULL == "null"
\* JavaScript null, for the object-valued state `results`
NoResults == <<"null">>
NoRequest == <<"none">>
\* citationData before any assignment (JavaScript null)
NullData == <<"null">>
\* JSON.parse throwing a SyntaxError
Throw == <<"throw">>

\* the messages the handlers pass to setError
MsgAuthExpired == "Authentication expired. Please log in again."
MsgHistoryFailed == "Failed to load history"
MsgNoPrevious == "No previous results found for this query"
MsgLookupFailed == "Failed to load previous results"
MsgPleaseLogIn == "Please log in to submit queries"
MsgSubmitFailed == "err.response?.data?.detail || err.message"

\* what the user can have in the query textarea
Queries == {"", " ", "q1", "q2"}

\* String.prototype.trim on the strings of Queries
Trim(q) == IF q = " " THEN "" ELSE q

\* response.data.queries of GET /api/user/history: the entries the server
\* holds for the session, each identified by (query, timestamp), in the
\* order of the response (oldest first)
ServerHistory ==
  << [query |-> "q2", timestamp |-> 1], [query |-> "q1", timestamp |-> 2] >>

RECURSIVE SortNewestFirst(_)
\* ChatInterface.js:99-100  history.sort((a, b) => new Date(b.timestamp) -
\* new Date(a.timestamp)): Array.prototype.sort is stable and sorts the
\* array it is called on; timestamps are numbers, as new Date makes them
SortNewestFirst(list) ==
  IF list = << >>
    THEN << >>
    ELSE LET sorted == SortNewestFirst(SubSeq(list, 1, Len(list) - 1))
             x == list[Len(list)]
             after == {i \in 1..Len(sorted) :
                         sorted[i].timestamp < x.timestamp}
             k == IF after = {}
                    THEN Len(sorted) + 1
                    ELSE CHOOSE i \in after : \A j \in after : i <= j
         IN  SubSeq(sorted, 1, k - 1) \o <<x>> \o SubSeq(sorted, k, Len(sorted))

\* ChatInterface.js:101  .slice(0, 10)
SidebarLimit == 10

\* mutant of Sidebar: the first ten entries received, then sorted
SidebarSliceFirst(list) ==
  SortNewestFirst(SubSeq(list, 1, IF Len(list) < SidebarLimit
                                    THEN Len(list) ELSE SidebarLimit))

\* ChatInterface.js:99-101  history.sort(...).slice(0, 10)
Sidebar(list) ==
  SubSeq(SortNewestFirst(list), 1,
         IF Len(list) < SidebarLimit THEN Len(list) ELSE SidebarLimit)

\* ChatInterface.js:92-102  the entries listed: none while the spinner is
\* shown or the list is empty
SidebarView(list, isLoading) ==
  IF isLoading \/ Len(list) = 0 THEN << >> ELSE Sidebar(list)

Entries == { ServerHistory[i] : i \in 1..Len(ServerHistory) }

\* how a GET /api/user/results/by-query can settle:
\*   stored  : response.data.result present, no response.data.error
\*   nodata  : response.data.result absent
\*   errbody : response.data.error present
\*   http401 : rejected with err.response.status = 401
\*   neterr  : rejected with any other error
LookupOutcomes == {"stored", "nodata", "errbody", "http401", "neterr"}
NotFoundOutcomes == {"nodata", "errbody"}
ThrowOutcomes == {"http401", "neterr"}

\* the branch of the onClick continuation an outcome takes; `calls` keeps
\* this for every settled request
Branch(outcome) ==
  CASE outcome = "stored" -> "stored"
    [] outcome \in NotFoundOutcomes -> "notfound"
    [] OTHER -> "threw"

\* response.data.result for the entry e
StoredResult(e) == <<"stored", e>>
\* response.data of POST /api/query for the body q
QueryResult(q) == <<"query", q>>
\* response.data of POST /api/pdf/upload
PDFResult == <<"pdf">>

\* JavaScript undefined
Undefined == <<"undefined">>

\* sectionView before CitationsSection has run
NotRendered == <<"not rendered">>

\* QueryParser.js:6  result before any response
NullResult == <<"null">>

\* QueryParser.js:159  result && (...) with a null result: no results area
Hidden == <<"hidden">>

\* Part I as App and ChatInterface construct it
AppInit ==
  /\ query = ""
  /\ results = NoResults
  /\ loading = FALSE
  /\ error = NULL
  /\ isAuthenticated = FALSE
  /\ authLoading = TRUE
  /\ mode = "query"
  /\ history = << >>
  /\ historyLoading = FALSE
  /\ calls = << >>
  /\ submitReq = NoRequest
  /\ historyReqs = 0
  /\ pdfUploads = 0
  /\ sidebar = << >>

\* no CitationsSection is mounted
ExtractIdle ==
  /\ rawData = << >>
  /\ citationData = NullData
  /\ rendered = FALSE

SectionIdle ==
  /\ content = Undefined
  /\ sectionData = NullData
  /\ sectionView = NotRendered
  /\ inlineData = NullData
  /\ inlineView = NotRendered

\* QueryParser.js:5-14  the useState initial values
ParserInit ==
  /\ parserQuery = ""
  /\ result = NullResult
  /\ page = 1
  /\ perPage = 10
  /\ parserLoading = FALSE
  /\ parserError = ""
  /\ courtFilter = << >>
  /\ minCitations = <<"number", 0>>
  /\ sortBy = "Newest"
  /\ expanded = {}
  /\ parserReq = NoRequest
  /\ shown = Hidden
  /\ recomputed = FALSE

Init ==
  /\ query = ""
  /\ results = NoResults
  /\ loading = FALSE
  /\ error = NULL
  /\ isAuthenticated = FALSE
  /\ authLoading = TRUE
  /\ mode = "query"
  /\ history = << >>
  /\ historyLoading = FALSE
  /\ calls = << >>
  /\ submitReq = NoRequest
  /\ historyReqs = 0
  /\ pdfUploads = 0
  /\ sidebar = << >>
  /\ rawData = << >>
  /\ citationData = NullData
  /\ rendered = FALSE
  /\ SectionIdle
  /\ ParserInit

\* App.js checkAuthStatus settles; on success the [isAuthenticated, user]
\* effect of ChatInterface runs fetchHistory up to its await
CheckAuthStatus(ok) ==
  /\ authLoading
  /\ authLoading' = FALSE
  /\ IF ok
       THEN /\ isAuthenticated' = TRUE
            /\ historyLoading' = TRUE
            /\ historyReqs' = historyReqs + 1
       ELSE UNCHANGED <<isAuthenticated, historyLoading, historyReqs>>
  /\ UNCHANGED <<query, results, loading, error, mode, history, calls,
                 submitReq>>
  /\ sidebar' = SidebarView(history', historyLoading')
  /\ UNCHANGED <<pdfUploads, nonAppVars>>

\* ChatInterface fetchHistory up to the await (refresh button; the button is
\* disabled while historyLoading)
FetchHistory ==
  /\ isAuthenticated
  /\ ~historyLoading
  /\ historyLoading' = TRUE
  /\ historyReqs' = historyReqs + 1
  /\ UNCHANGED <<query, results, loading, error, isAuthenticated,
                 authLoading, mode, history, calls, submitReq>>
  /\ sidebar' = SidebarView(history', historyLoading')
  /\ UNCHANGED <<pdfUploads, nonAppVars>>

\* ChatInterface fetchHistory after the await, queries being
\* response.data.queries: try / catch / finally, and the render that
\* follows, whose history.sort (line 100) reorders the array held by the
\* history state
FetchHistorySettleWith(outcome, queries) ==
  /\ historyReqs > 0
  /\ historyReqs' = historyReqs - 1
  /\ historyLoading' = FALSE
  /\ CASE outcome = "ok" ->
            /\ history' = SortNewestFirst(queries)
            /\ error' = error
       [] outcome = "http401" ->
            /\ error' = MsgAuthExpired
            /\ history' = history
       [] OTHER ->
            /\ error' = MsgHistoryFailed
            /\ history' = history
  /\ sidebar' = SidebarView(IF outcome = "ok" THEN queries ELSE history,
                            historyLoading')
  /\ UNCHANGED <<query, results, loading, isAuthenticated, authLoading,
                 mode, calls, submitReq>>
  /\ UNCHANGED <<pdfUploads, nonAppVars>>

\* the listing of the session's two entries
FetchHistorySettle(outcome) == FetchHistorySettleWith(outcome, ServerHistory)

\* textarea onChange / Clear button of the query form, which is rendered
\* in query mode; the textarea is disabled while loading or
\* unauthenticated, the Clear button never
SetQuery(q) ==
  /\ mode = "query"
  /\ q # query
  /\ q # "" => (~loading /\ isAuthenticated)
  /\ query' = q
  /\ UNCHANGED <<results, loading, error, isAuthenticated, authLoading,
                 mode, history, historyLoading, calls, submitReq,
                 historyReqs>>
  /\ UNCHANGED <<pdfUploads, sidebar, nonAppVars>>

\* Query / PDF mode buttons
SetMode(m) ==
  /\ m # mode
  /\ mode' = m
  /\ UNCHANGED <<query, results, loading, error, isAuthenticated,
                 authLoading, history, historyLoading, calls, submitReq,
                 historyReqs>>
  /\ UNCHANGED <<pdfUploads, sidebar, nonAppVars>>

\* mutant of HistoryItemClick: a thrown lookup is remembered, and a click on
\* the same entry replays the failure without a new request
HistoryItemClickFailureCached(e) ==
  /\ ~historyLoading
  /\ \E i \in 1..Len(history) : history[i] = e
  /\ Len(calls) < MaxCalls
  /\ query' = e.query
  /\ mode' = "query"
  /\ IF \E i \in 1..Len(calls) :
            calls[i].key = e /\ calls[i].status = "threw"
       THEN /\ error' = MsgLookupFailed
            /\ results' = NoResults
            /\ calls' = calls
       ELSE /\ error' = NULL
            /\ results' = results
            /\ calls' = Append(calls, [key |-> e, status |-> "pending"])
  /\ UNCHANGED <<loading, isAuthenticated, authLoading, history,
                 historyLoading, submitReq, historyReqs>>
  /\ UNCHANGED <<pdfUploads, sidebar, nonAppVars>>

\* history item onClick up to the await: the item is one of the rendered
\* entries, and the list is rendered only while not historyLoading
HistoryItemClick(e) ==
  /\ ~historyLoading
  /\ \E i \in 1..Len(history) : history[i] = e
  /\ Len(calls) < MaxCalls
  /\ query' = e.query
  /\ mode' = "query"
  /\ error' = NULL
  /\ calls' = Append(calls, [key |-> e, status |-> "pending"])
  /\ UNCHANGED <<results, loading, isAuthenticated, authLoading, history,
                 historyLoading, submitReq, historyReqs>>
  /\ UNCHANGED <<pdfUploads, sidebar, nonAppVars>>

\* history item onClick after the await, for the i-th request issued
HistoryLookupSettle(i, outcome) ==
  /\ i \in 1..Len(calls)
  /\ calls[i].status = "pending"
  /\ calls' = [calls EXCEPT ![i].status = Branch(outcome)]
  /\ CASE outcome = "stored" ->
            /\ results' = StoredResult(calls[i].key)
            /\ error' = error
       [] outcome \in NotFoundOutcomes ->
            /\ results' = NoResults
            /\ error' = MsgNoPrevious
       [] OTHER ->
            /\ results' = NoResults
            /\ error' = MsgLookupFailed
  /\ UNCHANGED <<query, loading, isAuthenticated, authLoading, mode,
                 history, historyLoading, submitReq, historyReqs>>
  /\ UNCHANGED <<pdfUploads, sidebar, nonAppVars>>

\* App.js handleSubmit up to the await; the submit button of ChatInterface
\* is disabled while loading, unauthenticated or with a blank query
HandleSubmit ==
  /\ mode = "query"
  /\ ~loading
  /\ isAuthenticated
  /\ Trim(query) # ""
  /\ loading' = TRUE
  /\ error' = NULL
  /\ results' = NoResults
  /\ submitReq' = <<"post", Trim(query)>>
  /\ UNCHANGED <<query, isAuthenticated, authLoading, mode, history,
                 historyLoading, calls, historyReqs>>
  /\ UNCHANGED <<pdfUploads, sidebar, nonAppVars>>

\* App.js handleSubmit after the await: try / catch / finally
HandleSubmitSettle(outcome) ==
  /\ submitReq # NoRequest
  /\ submitReq' = NoRequest
  /\ loading' = FALSE
  /\ CASE outcome = "ok" ->
            /\ results' = QueryResult(submitReq[2])
            /\ UNCHANGED <<error, isAuthenticated>>
       [] outcome = "http401" ->
            /\ error' = MsgPleaseLogIn
            /\ isAuthenticated' = FALSE
            /\ results' = results
       [] OTHER ->
            /\ error' = MsgSubmitFailed
            /\ UNCHANGED <<results, isAuthenticated>>
  /\ UNCHANGED <<query, authLoading, mode, history, historyLoading, calls,
                 historyReqs>>
  /\ UNCHANGED <<pdfUploads, sidebar, nonAppVars>>

\* PDFUpload handleUpload up to the await, with a file selected; the upload
\* button is disabled while unauthenticated, and the uploading flag that
\* also disables it is reset whenever PDFUpload is mounted again
HandleUpload ==
  /\ mode = "pdf"
  /\ isAuthenticated
  /\ pdfUploads < MaxUploads
  /\ pdfUploads' = pdfUploads + 1
  /\ UNCHANGED <<query, results, loading, error, isAuthenticated,
                 authLoading, mode, history, historyLoading, calls,
                 submitReq, historyReqs>>
  /\ UNCHANGED <<sidebar, nonAppVars>>

\* PDFUpload handleUpload after the await, request rejected: only the
\* error state local to PDFUpload is set
HandleUploadError ==
  /\ pdfUploads > 0
  /\ pdfUploads' = pdfUploads - 1
  /\ UNCHANGED <<query, results, loading, error, isAuthenticated,
                 authLoading, mode, history, historyLoading, calls,
                 submitReq, historyReqs>>
  /\ UNCHANGED <<sidebar, nonAppVars>>

\* App.js handlePDFAnalysisComplete, called by PDFUpload handleUpload after
\* the await when the upload succeeds
HandlePDFAnalysisComplete ==
  /\ pdfUploads > 0
  /\ pdfUploads' = pdfUploads - 1
  /\ results' = PDFResult
  /\ error' = NULL
  /\ UNCHANGED <<query, loading, isAuthenticated, authLoading, mode,
                 history, historyLoading, calls, submitReq, historyReqs>>
  /\ UNCHANGED <<sidebar, nonAppVars>>

\* App.js:71-82  handleLogout.  The part before the await changes no
\* state and the finally block runs however the POST settles, so the
\* handler is the one step taken when the POST settles.  The Logout button
\* is on screen whenever isAuthenticated holds, and a POST issued then can
\* settle in any later state; in a run that never authenticated the step
\* changes nothing.
HandleLogout ==
  /\ ~authLoading
  /\ isAuthenticated' = FALSE
  /\ results' = NoResults
  /\ UNCHANGED <<query, loading, error, authLoading, mode, history,
                 historyLoading, calls, submitReq, historyReqs>>
  /\ UNCHANGED <<pdfUploads, sidebar, nonAppVars>>

Next ==
  \/ \E ok \in BOOLEAN : CheckAuthStatus(ok)
  \/ FetchHistory
  \/ \E o \in {"ok", "http401", "neterr"} : FetchHistorySettle(o)
  \/ \E q \in Queries : SetQuery(q)
  \/ \E m \in {"query", "pdf"} : SetMode(m)
  \/ \E e \in Entries : HistoryItemClick(e)
  \/ \E i \in 1..MaxCalls, o \in LookupOutcomes : HistoryLookupSettle(i, o)
  \/ HandleSubmit
  \/ \E o \in {"ok", "http401", "neterr"} : HandleSubmitSettle(o)
  \/ HandleUpload
  \/ HandleUploadError
  \/ HandlePDFAnalysisComplete
  \/ HandleLogout

Spec == Init /\ [][Next]_vars

(***************************************************************************)
(* The history sidebar on listings of any length                           *)
(***************************************************************************)
\* the longest listing, one more than the sidebar shows
MaxHistory == 11

Strides == {1, 3, 4}

Moduli == {2, 5, 13}

\* the i-th entry of a listing: timestamps run through a cycle of length m
\* in steps of k, so listings come oldest first (k = 1, m = 13), shuffled,
\* and with equal timestamps (m = 2)
HistoryEntry(i, k, m) ==
  [query |-> IF i % 2 = 0 THEN "q1" ELSE "q2", timestamp |-> ((i * k) % m) + 1]

\* response.data.queries of GET /api/user/history
HistoryLists ==
  {[i \in 1..n |-> HistoryEntry(i, k, m)] :
     n \in 0..MaxHistory, k \in Strides, m \in Moduli}

NextSidebar ==
  \/ \E ok \in BOOLEAN : CheckAuthStatus(ok)
  \/ FetchHistory
  \/ \E list \in HistoryLists : FetchHistorySettleWith("ok", list)
  \/ \E o \in {"http401", "neterr"} : FetchHistorySettleWith(o, << >>)

SpecSidebar == Init /\ [][NextSidebar]_vars

(***************************************************************************)
(* Part II : embedded-JSON extraction (CitationsSection)                   *)
(*                                                                         *)
(* A citation text is a sequence of tokens, each standing for the          *)
(* characters shown:                                                       *)
(*   "O"  ```json\n         "C"  \n```                                     *)
(*   "A"  {"a":1}           "B"  {"b":2}                                   *)
(*   "{"  {                 "}"  }                                         *)
(*   "t"  true              "w"  x   (prose, not JSON)                     *)
(***************************************************************************)
Tokens == {"O", "C", "A", "B", "{", "}", "t", "w"}

Texts == UNION { [1..n -> Tokens] : n \in 0..MaxTextLen }

\* JSON.parse of the characters of a token sequence
JSONparse(s) ==
  CASE s = <<"A">> -> <<"object", "a">>
    [] s = <<"B">> -> <<"object", "b">>
    [] s = <<"{", "}">> -> <<"object">>
    [] s = <<"t">> -> <<"true">>
    [] OTHER -> Throw

Min(S) == CHOOSE x \in S : \A y \in S : x <= y
Max(S) == CHOOSE x \in S : \A y \in S : x >= y

\* positions where the characters \n``` start after an opening at i: a "C"
\* token, or an "O" that follows another "O" (the \n ending the first and
\* the ``` starting the second); the \n of the opening itself is consumed
FenceClosings(text, i) ==
  { j \in (i+1)..Len(text) :
      \/ text[j] = "C"
      \/ text[j] = "O" /\ j >= i + 2 /\ text[j-1] = "O" }

\* rawData.match(/```json\n([\s\S]*?)\n```/): the leftmost opening that has
\* a closing, lazily extended to its first closing; << >> when no match,
\* else <<i, j>>, the opening and closing positions
FenceMatch(text) ==
  LET opens == { i \in 1..Len(text) :
                   text[i] = "O" /\ FenceClosings(text, i) # {} }
  IN IF opens = {} THEN << >>
     ELSE <<Min(opens), Min(FenceClosings(text, Min(opens)))>>

\* jsonMatch[1], the captured group; when the closing is the junction of two
\* "O" tokens the group ends with ```json, written "J"
FenceInterior(text) ==
  LET m == FenceMatch(text)
  IN IF text[m[2]] = "C"
       THEN SubSeq(text, m[1] + 1, m[2] - 1)
       ELSE Append(SubSeq(text, m[1] + 1, m[2] - 2), "J")

HasOpenBrace(tok) == tok \in {"A", "B", "{"}
HasCloseBrace(tok) == tok \in {"A", "B", "}"}

\* rawData.match(/\{[\s\S]*\}/): from the first { greedily to the last };
\* << >> when no match, else <<i, j>>, the first and last token matched
BraceMatch(text) ==
  LET opens == { i \in 1..Len(text) : HasOpenBrace(text[i]) }
      closes == { j \in 1..Len(text) : HasCloseBrace(text[j]) }
  IN IF opens = {} THEN << >>
     ELSE IF { j \in closes : j >= Min(opens) } = {} THEN << >>
     ELSE <<Min(opens), Max(closes)>>

\* jsonMatch2[0]
BraceSpan(text) ==
  LET m == BraceMatch(text) IN SubSeq(text, m[1], m[2])

\* the value of a JSON.parse inside the try block: a throw leaves
\* citationData at its initial null
Caught(v) == IF v = Throw THEN NullData ELSE v

\* mutant of ExtractJson: the brace strategy is tried before the fence
ExtractJsonBracesFirst(text) ==
  IF BraceMatch(text) # << >>
    THEN Caught(JSONparse(BraceSpan(text)))
    ELSE IF FenceMatch(text) # << >>
           THEN Caught(JSONparse(FenceInterior(text)))
           ELSE NullData

\* mutant of ExtractJson: no try / catch around JSON.parse
ExtractJsonUncaught(text) ==
  IF FenceMatch(text) # << >>
    THEN JSONparse(FenceInterior(text))
    ELSE IF BraceMatch(text) # << >>
           THEN JSONparse(BraceSpan(text))
           ELSE NullData

\* mutant of ExtractJson: a fence whose interior does not parse falls
\* through to the brace strategy
ExtractJsonFallThrough(text) ==
  IF FenceMatch(text) # << >> /\ JSONparse(FenceInterior(text)) # Throw
    THEN JSONparse(FenceInterior(text))
    ELSE IF BraceMatch(text) # << >>
           THEN Caught(JSONparse(BraceSpan(text)))
           ELSE NullData

\* CitationsSection.js lines 22-31 inside try / catch, on a string rawData
ExtractJson(text) ==
  IF FenceMatch(text) # << >>
    THEN Caught(JSONparse(FenceInterior(text)))
    ELSE IF BraceMatch(text) # << >>
           THEN Caught(JSONparse(BraceSpan(text)))
           ELSE NullData

InitExtract ==
  /\ query = ""
  /\ results = NoResults
  /\ loading = FALSE
  /\ error = NULL
  /\ isAuthenticated = FALSE
  /\ authLoading = TRUE
  /\ mode = "query"
  /\ history = << >>
  /\ historyLoading = FALSE
  /\ calls = << >>
  /\ submitReq = NoRequest
  /\ historyReqs = 0
  /\ pdfUploads = 0
  /\ sidebar = << >>
  /\ rawData \in Texts
  /\ citationData = NullData
  /\ rendered = FALSE
  /\ SectionIdle
  /\ ParserInit

\* CitationsSection({ content }) with content.raw_result = rawData and no
\* content.parsed_data
CitationsSection ==
  /\ ~rendered
  /\ rendered' = TRUE
  /\ citationData' = ExtractJson(rawData)
  /\ UNCHANGED rawData
  /\ UNCHANGED <<appVars, sectionVars, parserVars>>

NextExtract == CitationsSection

SpecExtract == InitExtract /\ [][NextExtract]_vars

(***************************************************************************)
(* Properties of the history lookup (ChatInterface.js, history item        *)
(* onClick)                                                                *)
(***************************************************************************)
\* the i-th by-query request settles in this step
Settles(i) ==
  /\ i \in 1..Len(calls)
  /\ calls[i].status = "pending"
  /\ calls'[i].status # "pending"

\* a by-query request for the entry e is issued in this step
Issues(e) ==
  /\ Len(calls') = Len(calls) + 1
  /\ calls'[Len(calls')].key = e

\* some earlier request for e settled in the given branch
HasCall(e, branch) ==
  \E i \in 1..Len(calls) : calls[i].key = e /\ calls[i].status = branch

\* C1 -- history single-flight: while a lookup for a key is in flight no
\* second backend request is issued for that key, so at most one request per
\* key is pending at any time.
C1_SingleFlight ==
  \A i, j \in 1..Len(calls) :
    (i # j /\ calls[i].key = calls[j].key)
      => ~(calls[i].status = "pending" /\ calls[j].status = "pending")

\* C2 -- stale-result guard: a lookup for entry A that settles after another
\* entry B was clicked changes neither results nor error.
C2_StaleDiscarded ==
  [][\A i \in 1..MaxCalls :
       (Settles(i) /\ i < Len(calls) /\ calls[Len(calls)].key # calls[i].key)
         => (results' = results /\ error' = error)]_vars

\* C3 -- negative caching: once a lookup for a key has settled NotFound, no
\* later step issues a backend request for that key.
C3_NegativeCached ==
  [][\A e \in Entries : HasCall(e, "notfound") => ~Issues(e)]_vars

C5_PositiveCached ==
  [][\A e \in Entries : HasCall(e, "stored") => ~Issues(e)]_vars

\* C6 -- a history lookup rejected with a 401 surfaces the AuthExpired
\* message, not the generic failure message.
C6_AuthExpiredSurfaced ==
  [][\A i \in 1..MaxCalls :
       HistoryLookupSettle(i, "http401") => error' = MsgAuthExpired]_vars

\* C7 -- a history lookup settles in one of three distinguishable outcomes:
\* a stored result is displayed with no error (at the least, with neither of
\* the two lookup messages); a response without a stored result clears
\* results and reports "no previous result"; a thrown request clears results
\* and reports a failure.
C7_ThreeOutcomes ==
  [][\A i \in 1..MaxCalls :
       Settles(i) =>
         /\ calls'[i].status = "stored" =>
              /\ results' = StoredResult(calls[i].key)
              /\ error' \notin {MsgNoPrevious, MsgLookupFailed}
         /\ calls'[i].status = "notfound" =>
              results' = NoResults /\ error' = MsgNoPrevious
         /\ calls'[i].status = "threw" =>
              results' = NoResults /\ error' = MsgLookupFailed]_vars

(***************************************************************************)
(* Properties of the extraction                                            *)
(***************************************************************************)
\* tokens i..j of text are a json fence whose interior is valid JSON
ValidFenceAt(text, i, j) ==
  /\ i < j
  /\ text[i] = "O"
  /\ text[j] = "C"
  /\ JSONparse(SubSeq(text, i + 1, j - 1)) # Throw

\* text has a brace outside tokens i..j
BracesOutside(text, i, j) ==
  \E k \in 1..Len(text) :
    /\ k \notin i..j
    /\ HasOpenBrace(text[k]) \/ HasCloseBrace(text[k])

\* C8 (as claimed) -- for every text that contains a json fence with a valid
\* JSON interior and braces outside that fence, the extractor returns the
\* object parsed from the interior of such a fence.
C8_AnyFencePriority ==
  rendered =>
    ((\E i, j \in 1..Len(rawData) :
        ValidFenceAt(rawData, i, j) /\ BracesOutside(rawData, i, j))
     => (\E i, j \in 1..Len(rawData) :
           /\ ValidFenceAt(rawData, i, j)
           /\ citationData = JSONparse(SubSeq(rawData, i + 1, j - 1))))

\* C8 (amended) -- for every text whose first json fence has a valid JSON
\* interior and that has braces outside that fence, the extractor returns
\* the object parsed from the interior of that first fence.
C8_FirstFencePriority ==
  rendered =>
    \A i, j \in 1..Len(rawData) :
      ( /\ ValidFenceAt(rawData, i, j)
        /\ \A k \in 1..(i-1) : rawData[k] # "O"
        /\ BracesOutside(rawData, i, j) )
      => citationData = JSONparse(SubSeq(rawData, i + 1, j - 1))

\* C8 witness: stray {"b":2} before a fence holding {"a":1}; the fence wins.
C8_Witness ==
  /\ rendered
  /\ rawData = <<"B", "O", "A", "C">>
  /\ citationData = <<"object", "a">>

C10_FirstSuccessWins ==
  rendered =>
    citationData =
      IF FenceMatch(rawData) # << >>
           /\ JSONparse(FenceInterior(rawData)) # Throw
        THEN JSONparse(FenceInterior(rawData))
        ELSE IF BraceMatch(rawData) # << >>
                  /\ JSONparse(BraceSpan(rawData)) # Throw
               THEN JSONparse(BraceSpan(rawData))
               ELSE NullData

\* C10 (amended) -- the brace strategy is attempted only when no json fence
\* is found; a fence whose interior is not valid JSON yields null at once;
\* null is returned exactly when the one strategy attempted fails.
C10_BracesOnlyWithoutFence ==
  rendered =>
    /\ FenceMatch(rawData) = << >> =>
         citationData =
           IF BraceMatch(rawData) # << >>
                /\ JSONparse(BraceSpan(rawData)) # Throw
             THEN JSONparse(BraceSpan(rawData))
             ELSE NullData
    /\ ( /\ FenceMatch(rawData) # << >>
         /\ JSONparse(FenceInterior(rawData)) = Throw )
         => citationData = NullData
    /\ citationData = NullData =>
         \/ /\ FenceMatch(rawData) # << >>
            /\ JSONparse(FenceInterior(rawData)) = Throw
         \/ /\ FenceMatch(rawData) = << >>
            /\ \/ BraceMatch(rawData) = << >>
               \/ JSONparse(BraceSpan(rawData)) = Throw

\* C10 witness: a fence holding prose followed by a bare {"b":2}; the result
\* is null although the brace span would parse.
C10_Witness ==
  /\ rendered
  /\ rawData = <<"O", "w", "C", "B">>
  /\ JSONparse(BraceSpan(rawData)) = <<"object", "b">>
  /\ citationData = NullData

(***************************************************************************)
(* Part III : CitationsSection({ content }), the component of              *)
(* components/CitationsSection.js and the one defined inside App.js         *)
(*                                                                         *)
(* JavaScript values are tagged tuples: Undefined, NullData,               *)
(* <<"string", tokens>>, <<"array", elements>>, and <<"data", v>> for an   *)
(* object whose individual_citation_analysis is v.  The values returned by *)
(* JSONparse are objects without that property.                            *)
(***************************************************************************)
Str(text) == <<"string", text>>

Array(elems) == <<"array", elems>>

Data(analysis) == <<"data", analysis>>

\* the values on which !v holds
Falsy(v) == v \in {Undefined, NullData, Str(<< >>)}

\* citation.status; "" stands for an absent or empty status, PENDING for a
\* value outside the three known ones
Statuses == {"VALID", "INVALID", "NEEDS_REVIEW", "PENDING", ""}

CitationLists ==
  UNION {[1..n -> [status : Statuses]] : n \in 0..MaxCitations}

\* values of individual_citation_analysis: absent, null, a list, an empty
\* string, a non-empty string, an object
AnalysisValues ==
  {Undefined, NullData, Str(<< >>), Str(<<"w">>), Data(Undefined)}
    \cup {Array(l) : l \in CitationLists}

\* raw_result / verification_details texts
SectionTexts ==
  { << >>, <<"w">>, <<"A">>, <<"{", "w", "}">>, <<"O", "B", "C">>,
    <<"O", "w", "C", "A">> }

RawValues ==
  {Undefined, Data(Undefined)} \cup {Str(t) : t \in SectionTexts}

\* content = <<"content", parsed_data, raw_result, verification_details>>
Contents ==
  {Undefined} \cup
  { <<"content", p, r, v>> :
      p \in {Undefined, Str(<<"w">>)} \cup {Data(a) : a \in AnalysisValues},
      r \in RawValues, v \in RawValues }

parsed_data(c) == c[2]

raw_result(c) == c[3]

verification_details(c) == c[4]

\* CitationsSection.js:21  content.raw_result || content.verification_details
RawDataOf(c) ==
  IF Falsy(raw_result(c)) THEN verification_details(c) ELSE raw_result(c)

\* CitationsSection.js:22  rawData && typeof rawData === 'string'
IsText(v) == v[1] = "string" /\ ~Falsy(v)

\* CitationsSection.js:17-36  citationData when the try block is left
SectionCitationData(c) ==
  IF ~Falsy(parsed_data(c))
    THEN parsed_data(c)
    ELSE IF IsText(RawDataOf(c))
           THEN ExtractJson(RawDataOf(c)[2])
           ELSE NullData

\* CitationsSection.js:38-39  individual_citation_analysis || []
CitationsOf(d) ==
  LET analysis == IF d[1] = "data" THEN d[2] ELSE Undefined
  IN  IF Falsy(analysis) THEN Array(<< >>) ELSE analysis

\* CitationsSection.js:3-11
StatusBadge(status) ==
  LET label == IF status = "" THEN "NEEDS_REVIEW" ELSE status
  IN  [ label |-> label,
        style |-> IF label \in {"VALID", "INVALID", "NEEDS_REVIEW"}
                    THEN label ELSE "NEEDS_REVIEW" ]

TypeError == <<"TypeError">>

NoDetails == <<"No parsed citation details available.">>

Nothing == <<"nothing">>

\* CitationsSection.js:50-88  citations.length > 0 ? citations.map(...) : ...
SectionList(citations) ==
  IF citations[1] \in {"array", "string"} /\ Len(citations[2]) > 0
    THEN IF citations[1] = "array"
           THEN <<"citations",
                  [i \in 1..Len(citations[2]) |->
                     StatusBadge(citations[2][i].status)]>>
           ELSE TypeError
    ELSE NoDetails

\* CitationsSection.js:13-95
CitationsSectionRender ==
  /\ sectionView = NotRendered
  /\ IF content = Undefined
       THEN /\ sectionView' = Nothing
            /\ sectionData' = sectionData
       ELSE /\ sectionData' = SectionCitationData(content)
            /\ sectionView' = SectionList(CitationsOf(sectionData'))
  /\ UNCHANGED <<content, inlineData, inlineView>>
  /\ UNCHANGED <<appVars, extractVars, parserVars>>

\* JSON.parse throws inside the try block on this text
ParseThrows(text) ==
  IF FenceMatch(text) # << >>
    THEN JSONparse(FenceInterior(text)) = Throw
    ELSE BraceMatch(text) # << >> /\ JSONparse(BraceSpan(text)) = Throw

\* App.js:204-234  the try block is left by the catch, summary stays null
InlineCaught(c) ==
  \/ c = Undefined
  \/ /\ c # Undefined
     /\ Falsy(parsed_data(c))
     /\ IsText(RawDataOf(c))
     /\ ParseThrows(RawDataOf(c)[2])

\* App.js:317-323  the status label of one citation
InlineStatus(status) ==
  [ label |-> status,
    style |-> IF status \in {"VALID", "INVALID"}
                THEN status ELSE "NEEDS_REVIEW" ]

\* App.js:303-308  citations.length > 0 && citations.map(...)
InlineList(citations) ==
  IF citations[1] \in {"array", "string"} /\ Len(citations[2]) > 0
    THEN IF citations[1] = "array"
           THEN <<"citations",
                  [i \in 1..Len(citations[2]) |->
                     InlineStatus(citations[2][i].status)]>>
           ELSE TypeError
    ELSE <<"citations", << >> >>

\* mutant of InlineCitationData: verification_details is read before
\* raw_result
InlineCitationDataDetailsFirst(c) ==
  LET raw == IF Falsy(verification_details(c))
                   THEN raw_result(c) ELSE verification_details(c)
  IN  IF InlineCaught(c)
        THEN NullData
        ELSE IF ~Falsy(parsed_data(c))
               THEN parsed_data(c)
               ELSE IF ~IsText(raw)
                      THEN NullData
                      ELSE IF FenceMatch(raw[2]) # << >>
                             THEN JSONparse(FenceInterior(raw[2]))
                             ELSE IF BraceMatch(raw[2]) # << >>
                                    THEN JSONparse(BraceSpan(raw[2]))
                                    ELSE NullData

\* App.js:201-234  citationData when the try block is left: null when the
\* catch was taken (content.parsed_data on an undefined content, or
\* JSON.parse, raised before any assignment), else the value assigned by
\* lines 205-224
InlineCitationData(c) ==
  LET raw == IF Falsy(raw_result(c))
                   THEN verification_details(c) ELSE raw_result(c)
  IN  IF InlineCaught(c)
        THEN NullData
        ELSE IF ~Falsy(parsed_data(c))
               THEN parsed_data(c)
               ELSE IF ~IsText(raw)
                      THEN NullData
                      ELSE IF FenceMatch(raw[2]) # << >>
                             THEN JSONparse(FenceInterior(raw[2]))
                             ELSE IF BraceMatch(raw[2]) # << >>
                                    THEN JSONparse(BraceSpan(raw[2]))
                                    ELSE NullData

\* App.js:199-350  the CitationsSection defined inside App
InlineCitationsSection ==
  /\ inlineView = NotRendered
  /\ inlineData' = InlineCitationData(content)
  /\ inlineView' = IF InlineCaught(content)
                     THEN <<"raw content", content>>
                     ELSE InlineList(CitationsOf(inlineData'))
  /\ UNCHANGED <<content, sectionData, sectionView>>
  /\ UNCHANGED <<appVars, extractVars, parserVars>>

InitSection ==
  /\ AppInit
  /\ ExtractIdle
  /\ ParserInit
  /\ content \in Contents
  /\ sectionData = NullData
  /\ sectionView = NotRendered
  /\ inlineData = NullData
  /\ inlineView = NotRendered

NextSection ==
  \/ CitationsSectionRender
  \/ InlineCitationsSection

SpecSection == InitSection /\ [][NextSection]_vars

(***************************************************************************)
(* Properties of the citation section                                      *)
(***************************************************************************)
\* the three cases of the source precedence, for the citation data and the
\* view one component produced from content
SourcePrecedence(data, view) ==
  IF ~Falsy(parsed_data(content))
    THEN data = parsed_data(content)
    ELSE IF IsText(RawDataOf(content))
           THEN data = ExtractJson(RawDataOf(content)[2])
           ELSE /\ data = NullData
                /\ view = <<"raw content", content>>

\* C11 -- source precedence of the citation section: a present parsed_data
\* is the citation data and the raw text is not parsed; otherwise a raw
\* text (raw_result, else verification_details) that is a string goes
\* through the extractor; otherwise the citation data is null and the raw
\* content is rendered as the fallback.  Stated for both components.
C11_SourcePrecedence ==
  /\ (content # Undefined /\ sectionView # NotRendered)
       => SourcePrecedence(sectionData, sectionView)
  /\ (content # Undefined /\ inlineView # NotRendered)
       => SourcePrecedence(inlineData, inlineView)

\* the labels a rendered citation list shows
ShownLabels(view) ==
  IF view[1] = "citations"
    THEN {view[2][i].label : i \in 1..Len(view[2])}
    ELSE {}

\* C14 -- every status shown for a citation analysis is one of VALID,
\* INVALID, NEEDS_REVIEW: an absent status and an unrecognized status are
\* both shown as NEEDS_REVIEW.
C14_StatusInvariant ==
  ShownLabels(sectionView) \cup ShownLabels(inlineView)
    \subseteq {"VALID", "INVALID", "NEEDS_REVIEW"}

(***************************************************************************)
(* Part IV : QueryParser (components/QueryParser.js)                       *)
(*                                                                         *)
(* A case is a record.  A string property that the code only reads through *)
(* `x || fallback` is a string, "" standing for absent or empty; court and *)
(* date strings are sequences of characters; citations_count is << >>      *)
(* when absent and <<n>> otherwise; related_precedents is the sequence of  *)
(* the precedents' dates; legal_citations tells whether the list is        *)
(* non-empty; entities tells the shape of the values of summary.entities.  *)
(***************************************************************************)
BaseCase ==
  [ case_id |-> "4", title |-> "", case_name |-> "", summary_case |-> "",
    court |-> << >>, summary_court |-> << >>, citations_count |-> << >>,
    date |-> << >>, related_precedents |-> << >>, legal_citations |-> FALSE,
    entities |-> "absent" ]

\* the cases a response is built from
SampleCases ==
  { [BaseCase EXCEPT !.case_id = "1", !.title = "T1", !.court = <<"H", "c">>,
                     !.citations_count = <<2>>, !.date = <<"2">>,
                     !.legal_citations = TRUE, !.entities = "lists"],
    [BaseCase EXCEPT !.case_id = "2", !.summary_case = "S2",
                     !.summary_court = <<"h", "C">>,
                     !.related_precedents = << <<"1", "2">> >>],
    [BaseCase EXCEPT !.case_id = "3", !.case_name = "N3",
                     !.court = <<"S", "c">>, !.citations_count = <<2>>,
                     !.date = <<"1">>],
    BaseCase,
    [BaseCase EXCEPT !.case_id = "5", !.title = "T5", !.summary_case = "S5",
                     !.case_name = "N5", !.court = <<"S">>,
                     !.citations_count = <<1>>, !.date = <<"1", "2">>,
                     !.related_precedents = << <<"2">> >>],
    [BaseCase EXCEPT !.case_id = "6", !.court = <<"H", "c">>,
                     !.citations_count = <<3>>, !.entities = "null"] }

CaseLists == UNION {[1..n -> SampleCases] : n \in 0..MaxCases}

\* result = <<"result", cases>>, the response data with its cases property
Result(cases) == <<"result", cases>>

\* values typed into the court filter
CourtFilters == { << >>, <<"h">>, <<"C">>, <<"s", "c">> }

Digits == <<"0", "1", "2", "3", "4", "5", "6", "7", "8", "9">>

\* values of the minimum-citations number input
MinInputs == {"", "1", "2", "3"}

SortKeys == {"Newest", "Oldest", "Most Cited", "Least Cited"}

\* String.prototype.toLowerCase, per character
LowerChar(ch) ==
  CASE ch = "H" -> "h"
    [] ch = "C" -> "c"
    [] ch = "S" -> "s"
    [] OTHER -> ch

toLowerCase(str) == [i \in 1..Len(str) |-> LowerChar(str[i])]

\* String.prototype.includes
includes(str, part) ==
  \E i \in 0..(Len(str) - Len(part)) : SubSeq(str, i + 1, i + Len(part)) = part

\* Number(minCitations) || 0
NumberOf(v) ==
  IF v[1] = "number"
    THEN v[2]
    ELSE IF v[2] = ""
           THEN 0
           ELSE (CHOOSE n \in 1..Len(Digits) : Digits[n] = v[2]) - 1

\* QueryParser.js:75  c.court || c.summary?.court || ""
CourtOf(c) == IF c.court # << >> THEN c.court ELSE c.summary_court

\* QueryParser.js:79  c.citations_count || 0
CountOf(c) == IF c.citations_count = << >> THEN 0 ELSE c.citations_count[1]

\* QueryParser.js:81-85
getCaseDate(c) ==
  IF c.date # << >>
    THEN c.date
    ELSE IF c.related_precedents # << >> /\ c.related_precedents[1] # << >>
           THEN c.related_precedents[1]
           ELSE << >>

\* String.prototype.localeCompare on strings of digits: -1, 0 or 1
localeCompare(a, b) ==
  LET Rank(ch) == CHOOSE n \in 1..Len(Digits) : Digits[n] = ch
      diff == {i \in 1..Len(a) : i <= Len(b) /\ a[i] # b[i]}
  IN  IF diff # {}
        THEN IF Rank(a[Min(diff)]) < Rank(b[Min(diff)]) THEN -1 ELSE 1
        ELSE IF Len(a) < Len(b) THEN -1
             ELSE IF Len(a) > Len(b) THEN 1 ELSE 0

\* QueryParser.js:87-94  the compare function handed to sort
Compare(key, a, b) ==
  CASE key = "Newest" -> localeCompare(getCaseDate(b), getCaseDate(a))
    [] key = "Oldest" -> localeCompare(getCaseDate(a), getCaseDate(b))
    [] key = "Most Cited" -> CountOf(b) - CountOf(a)
    [] key = "Least Cited" -> CountOf(a) - CountOf(b)

\* mutant of InsertSorted: an element goes before the elements it ties with
InsertSortedBeforeTies(sorted, x, key) ==
  LET after == {i \in 1..Len(sorted) : Compare(key, x, sorted[i]) <= 0}
      k == IF after = {} THEN Len(sorted) + 1 ELSE Min(after)
  IN  SubSeq(sorted, 1, k - 1) \o <<x>> \o SubSeq(sorted, k, Len(sorted))

\* one step of Array.prototype.sort, which is stable: x goes before the
\* first element it must precede and after everything else
InsertSorted(sorted, x, key) ==
  LET after == {i \in 1..Len(sorted) : Compare(key, x, sorted[i]) < 0}
      k == IF after = {} THEN Len(sorted) + 1 ELSE Min(after)
  IN  SubSeq(sorted, 1, k - 1) \o <<x>> \o SubSeq(sorted, k, Len(sorted))

RECURSIVE ArraySort(_, _)
\* Array.prototype.sort with the compare function of key
ArraySort(list, key) ==
  IF list = << >>
    THEN << >>
    ELSE InsertSorted(ArraySort(SubSeq(list, 1, Len(list) - 1), key),
                      list[Len(list)], key)

\* mutant of PassesFilter: the court test is case-sensitive
PassesFilterCaseSensitive(c, court, minimum) ==
  /\ court # << >> => includes(CourtOf(c), court)
  /\ CountOf(c) >= NumberOf(minimum)

\* QueryParser.js:73-79  the two filter predicates
PassesFilter(c, court, minimum) ==
  /\ court # << >> => includes(toLowerCase(CourtOf(c)), toLowerCase(court))
  /\ CountOf(c) >= NumberOf(minimum)

\* QueryParser.js:69-96 on a cases list
sortedAndFilteredCases(cases, court, minimum, key) ==
  LET Keep(c) == PassesFilter(c, court, minimum)
  IN  ArraySort(SelectSeq(cases, Keep), key)

\* mutant of CasesAfterCall: the sort is applied to the array held by result
CasesAfterCallInPlace(cases, court, minimum, key) ==
  ArraySort(cases, key)

\* QueryParser.js:71-93  the array held by result.cases once the call has
\* returned.  The local variable cases names the array of result ("state")
\* or an array made during the call ("fresh"); cases.sort sorts the array
\* the variable names at that point
CasesAfterCall(cases, court, minimum, key) ==
  LET afterSpread == "fresh"
      afterCourt == IF court # << >> THEN "fresh" ELSE afterSpread
      afterCount == IF TRUE THEN "fresh" ELSE afterCourt
  IN  IF afterCount = "state" THEN ArraySort(cases, key) ELSE cases

\* QueryParser.js:246  caseItem.title || caseItem.summary?.case || "Unknown Case"
CaseTitle(c) ==
  IF c.title # "" THEN c.title
  ELSE IF c.summary_case # "" THEN c.summary_case ELSE "Unknown Case"

\* Results.js:94  caseItem.title || caseItem.case_name || "Unknown Case"
ResultsCaseTitle(c) ==
  IF c.title # "" THEN c.title
  ELSE IF c.case_name # "" THEN c.case_name ELSE "Unknown Case"

\* QueryParser.js:237-400  the card rendered for one case
Card(c) == [case |-> c, title |-> CaseTitle(c)]

\* QueryParser.js:313-319  entities.length / entities.join on a value of
\* summary.entities that is null or a non-empty string
EntitiesRaise(c) == c.entities \in {"null", "string"}

NoCasesFound == <<"No cases found">>

\* QueryParser.js:159-236  the results area
RenderResult(res, court, minimum, key) ==
  IF res = NullResult
    THEN Hidden
    ELSE IF Falsy(res[2]) \/ (res[2][1] = "array" /\ Len(res[2][2]) = 0)
           THEN NoCasesFound
           ELSE IF res[2][1] # "array"
                  THEN TypeError
                  ELSE LET view == sortedAndFilteredCases(res[2][2], court,
                                                          minimum, key)
                       IN  IF \E i \in 1..Len(view) : EntitiesRaise(view[i])
                             THEN TypeError
                             ELSE <<"cases",
                                    [i \in 1..Len(view) |-> Card(view[i])]>>

\* QueryParser.js:159-236  whether a render of the results area reaches
\* the call sortedAndFilteredCases() of line 236: it does when result is
\* set and result.cases is a non-empty list
CallsSortedAndFiltered(res) ==
  res # NullResult /\ res[2][1] = "array" /\ Len(res[2][2]) > 0

\* QueryParser.js:159-236  the result state once the results area has been
\* rendered
AfterRender(res, court, minimum, key) ==
  IF CallsSortedAndFiltered(res)
    THEN Result(Array(CasesAfterCall(res[2][2], court, minimum, key)))
    ELSE res

\* response data: cases absent, null, an object, or a list
ViewResults ==
  {Result(Undefined), Result(NullData), Result(Data(Undefined))}
    \cup {Result(Array(l)) : l \in CaseLists}

MinCitationValues == {<<"number", 0>>} \cup {Str(m) : m \in MinInputs}

\* a response has arrived and the controls hold any values; the results
\* area is about to be rendered
InitView ==
  /\ AppInit
  /\ ExtractIdle
  /\ SectionIdle
  /\ parserQuery = "q1"
  /\ result \in ViewResults
  /\ page = 1
  /\ perPage = 10
  /\ parserLoading = FALSE
  /\ parserError = ""
  /\ courtFilter \in CourtFilters
  /\ minCitations \in MinCitationValues
  /\ sortBy \in SortKeys
  /\ expanded = {}
  /\ parserReq = NoRequest
  /\ shown = NotRendered
  /\ recomputed = FALSE

\* QueryParser.js:98-404  the render of the component
QueryParserRender ==
  /\ shown = NotRendered
  /\ shown' = RenderResult(result, courtFilter, minCitations, sortBy)
  /\ result' = AfterRender(result, courtFilter, minCitations, sortBy)
  /\ recomputed' = CallsSortedAndFiltered(result)
  /\ UNCHANGED <<parserQuery, page, perPage, parserLoading,
                 parserError, courtFilter, minCitations, sortBy, expanded,
                 parserReq>>
  /\ UNCHANGED <<appVars, extractVars, sectionVars>>

NextView == QueryParserRender

SpecView == InitView /\ [][NextView]_vars

(***************************************************************************)
(* Part IV, continued : the handlers of QueryParser                        *)
(***************************************************************************)
\* values typed into the query input
ParserQueries == {"", " ", "q1"}

\* QueryParser.js:215-217  the options of the Results Per Page select
PerPageOptions == {5, 10, 20}

\* values typed into the court filter and the minimum-citations input
\* while a result is on screen
CourtInputs == { << >>, <<"h">> }

MinCitationInputs == {"", "2"}

\* two cases, the first with legal citations, the second with a precedent
ShortList ==
  << [BaseCase EXCEPT !.case_id = "1", !.title = "T1", !.court = <<"H", "c">>,
                      !.citations_count = <<2>>, !.date = <<"2">>,
                      !.legal_citations = TRUE, !.entities = "lists"],
     [BaseCase EXCEPT !.case_id = "5", !.title = "T5", !.summary_case = "S5",
                      !.case_name = "N5", !.court = <<"S">>,
                      !.citations_count = <<1>>, !.date = <<"1", "2">>,
                      !.related_precedents = << <<"2">> >>] >>

\* six cases with the case_id 1 .. 6, one more than the smallest page size
LongList == [i \in 1..6 |-> [BaseCase EXCEPT !.case_id = Digits[i + 1]]]

\* two cases for which the backend sent no case_id ("" stands for the
\* absent field), each with legal citations
NoIdList ==
  << [BaseCase EXCEPT !.case_id = "", !.title = "T1", !.legal_citations = TRUE,
                      !.entities = "lists"],
     [BaseCase EXCEPT !.case_id = "", !.title = "T5", !.legal_citations = TRUE,
                      !.entities = "lists"] >>

\* res.data of POST /query
ParserResults ==
  { Result(Undefined), Result(Array(<< >>)), Result(Array(ShortList)),
    Result(Array(LongList)), Result(Array(NoIdList)) }

\* the backend returns at most per_page cases
Respects(res, per_page) ==
  res[2][1] = "array" => Len(res[2][2]) <= per_page

\* QueryParser.js:50-61  the message for a failed request
ErrorMessage(outcome) ==
  CASE outcome = "detail" -> "detail"
    [] outcome = "http401" -> "Authentication failed. Please refresh the page."
    [] outcome = "http500" -> "Server error. Please try again later."
    [] outcome = "refused" ->
         "Cannot connect to server. Please ensure the backend is running."
    [] outcome = "neterr" -> "Network Error"
    [] OTHER -> "Something went wrong. Try again later."

ParserFailures == {"detail", "http401", "neterr"}

\* the render that follows the state change of a handler, res being the
\* result the handler leaves
Rerender(res) ==
  /\ shown' = RenderResult(res, courtFilter', minCitations', sortBy')
  /\ result' = AfterRender(res, courtFilter', minCitations', sortBy')
  /\ recomputed' = CallsSortedAndFiltered(res)

\* QueryParser.js:118  onChange of the query input
SetParserQuery(q) ==
  /\ parserQuery' = q
  /\ UNCHANGED <<page, perPage, parserLoading, parserError,
                 courtFilter, minCitations, sortBy, expanded, parserReq>>
  /\ Rerender(result)
  /\ UNCHANGED <<appVars, extractVars, sectionVars>>

\* QueryParser.js:19-41  handleSubmit up to the await; the submit button is
\* disabled while loading (line 129)
ParserHandleSubmit ==
  /\ ~parserLoading
  /\ IF Trim(parserQuery) = ""
       THEN /\ parserError' = "Please enter a query!"
            /\ UNCHANGED <<parserLoading, parserReq>>
       ELSE /\ parserLoading' = TRUE
            /\ parserError' = ""
            /\ parserReq' = <<"post", parserQuery, page, perPage>>
  /\ UNCHANGED <<parserQuery, page, perPage, courtFilter, minCitations,
                 sortBy, expanded>>
  /\ Rerender(IF Trim(parserQuery) = "" THEN result ELSE NullResult)
  /\ UNCHANGED <<appVars, extractVars, sectionVars>>

\* QueryParser.js:44, 62-63  the request succeeds
ParserSubmitOk(res) ==
  /\ parserReq # NoRequest
  /\ Respects(res, parserReq[4])
  /\ parserLoading' = FALSE
  /\ parserReq' = NoRequest
  /\ UNCHANGED <<parserQuery, page, perPage, parserError, courtFilter,
                 minCitations, sortBy, expanded>>
  /\ Rerender(res)
  /\ UNCHANGED <<appVars, extractVars, sectionVars>>

\* mutant of ParserSubmitFail: loading is reset on success only
ParserSubmitFailStillLoading(outcome) ==
  /\ parserReq # NoRequest
  /\ parserError' = ErrorMessage(outcome)
  /\ parserLoading' = parserLoading
  /\ parserReq' = NoRequest
  /\ UNCHANGED <<parserQuery, page, perPage, courtFilter,
                 minCitations, sortBy, expanded>>
  /\ Rerender(result)
  /\ UNCHANGED <<appVars, extractVars, sectionVars>>

\* QueryParser.js:45-63  the request fails
ParserSubmitFail(outcome) ==
  /\ parserReq # NoRequest
  /\ parserError' = ErrorMessage(outcome)
  /\ parserLoading' = FALSE
  /\ parserReq' = NoRequest
  /\ UNCHANGED <<parserQuery, page, perPage, courtFilter,
                 minCitations, sortBy, expanded>>
  /\ Rerender(result)
  /\ UNCHANGED <<appVars, extractVars, sectionVars>>

\* QueryParser.js:179  onChange of the court filter, shown with a result
SetCourtFilter(v) ==
  /\ result # NullResult
  /\ courtFilter' = v
  /\ UNCHANGED <<parserQuery, page, perPage, parserLoading,
                 parserError, minCitations, sortBy, expanded, parserReq>>
  /\ Rerender(result)
  /\ UNCHANGED <<appVars, extractVars, sectionVars>>

\* QueryParser.js:190  onChange of the minimum-citations input
SetMinCitations(v) ==
  /\ result # NullResult
  /\ minCitations' = Str(v)
  /\ UNCHANGED <<parserQuery, page, perPage, parserLoading,
                 parserError, courtFilter, sortBy, expanded, parserReq>>
  /\ Rerender(result)
  /\ UNCHANGED <<appVars, extractVars, sectionVars>>

\* QueryParser.js:199  onChange of the Sort By select
SetSortBy(key) ==
  /\ result # NullResult
  /\ sortBy' = key
  /\ UNCHANGED <<parserQuery, page, perPage, parserLoading,
                 parserError, courtFilter, minCitations, expanded, parserReq>>
  /\ Rerender(result)
  /\ UNCHANGED <<appVars, extractVars, sectionVars>>

\* QueryParser.js:212  onChange of the Results Per Page select
SetPerPage(n) ==
  /\ result # NullResult
  /\ perPage' = n
  /\ UNCHANGED <<parserQuery, page, parserLoading, parserError,
                 courtFilter, minCitations, sortBy, expanded, parserReq>>
  /\ Rerender(result)
  /\ UNCHANGED <<appVars, extractVars, sectionVars>>

\* QueryParser.js:339, 371  ${caseItem.case_id} in the template literal of
\* the key: an absent case_id gives the text "undefined"
TemplateText(id) == IF id = "" THEN "undefined" ELSE id

\* QueryParser.js:339, 371  the key `${caseItem.case_id}-cits` or
\* `${caseItem.case_id}-prec` of a section
SectionKey(c, kind) == <<TemplateText(c.case_id), kind>>

\* the expand buttons of a shown card: the "cits" key when the case has
\* legal citations, the "prec" key when it has related precedents
ButtonsOf(c) ==
  (IF c.legal_citations THEN {SectionKey(c, "cits")} ELSE {})
    \cup (IF c.related_precedents # << >>
            THEN {SectionKey(c, "prec")} ELSE {})

\* the keys a button on screen can pass to toggleExpanded
SectionKeys ==
  {SectionKey(c, kind) : c \in SampleCases \cup {NoIdList[1]},
                         kind \in {"cits", "prec"}}

\* QueryParser.js:65-67, 337-376  toggleExpanded from a button on screen
ToggleExpanded(id) ==
  /\ shown[1] = "cases"
  /\ \E i \in 1..Len(shown[2]) : id \in ButtonsOf(shown[2][i].case)
  /\ expanded' = IF id \in expanded THEN expanded \ {id} ELSE expanded \cup {id}
  /\ UNCHANGED <<parserQuery, page, perPage, parserLoading,
                 parserError, courtFilter, minCitations, sortBy, parserReq>>
  /\ Rerender(result)
  /\ UNCHANGED <<appVars, extractVars, sectionVars>>

\* mutant of InitParser: page starts at 0
InitParserPageZero ==
  /\ AppInit
  /\ ExtractIdle
  /\ SectionIdle
  /\ parserQuery = ""
  /\ result = NullResult
  /\ page = 0
  /\ perPage = 10
  /\ parserLoading = FALSE
  /\ parserError = ""
  /\ courtFilter = << >>
  /\ minCitations = <<"number", 0>>
  /\ sortBy = "Newest"
  /\ expanded = {}
  /\ parserReq = NoRequest
  /\ shown = Hidden
  /\ recomputed = FALSE

\* QueryParser.js:5-14  the component as mounted
InitParser ==
  /\ AppInit
  /\ ExtractIdle
  /\ SectionIdle
  /\ parserQuery = ""
  /\ result = NullResult
  /\ page = 1
  /\ perPage = 10
  /\ parserLoading = FALSE
  /\ parserError = ""
  /\ courtFilter = << >>
  /\ minCitations = <<"number", 0>>
  /\ sortBy = "Newest"
  /\ expanded = {}
  /\ parserReq = NoRequest
  /\ shown = Hidden
  /\ recomputed = FALSE

NextParser ==
  \/ \E q \in ParserQueries : SetParserQuery(q)
  \/ ParserHandleSubmit
  \/ \E res \in ParserResults : ParserSubmitOk(res)
  \/ \E o \in ParserFailures : ParserSubmitFail(o)
  \/ \E v \in CourtInputs : SetCourtFilter(v)
  \/ \E v \in MinCitationInputs : SetMinCitations(v)
  \/ \E key \in SortKeys : SetSortBy(key)
  \/ \E n \in PerPageOptions : SetPerPage(n)
  \/ \E id \in SectionKeys : ToggleExpanded(id)

SpecParser == InitParser /\ [][NextParser]_vars

(***************************************************************************)
(* The two submission handlers side by side: handleSubmit of App with the  *)
(* steps that enable it, and handleSubmit of QueryParser                   *)
(***************************************************************************)
NextSubmit ==
  \/ \E ok \in BOOLEAN : CheckAuthStatus(ok)
  \/ \E o \in {"ok", "http401", "neterr"} : FetchHistorySettle(o)
  \/ \E q \in Queries : SetQuery(q)
  \/ HandleSubmit
  \/ \E o \in {"ok", "http401", "neterr"} : HandleSubmitSettle(o)
  \/ \E q \in ParserQueries : SetParserQuery(q)
  \/ ParserHandleSubmit
  \/ \E res \in ParserResults : ParserSubmitOk(res)
  \/ \E o \in ParserFailures : ParserSubmitFail(o)

SpecSubmit == Init /\ [][NextSubmit]_vars


(***************************************************************************)
(* Properties of the results view                                          *)
(***************************************************************************)
\* the cases of the rendered cards, in display order
ShownCases == [i \in 1..Len(shown[2]) |-> shown[2][i].case]

\* the cases list the view was computed from
ReceivedCases == result[2][2]

\* number of positions of list holding c
Occurrences(list, c) == Cardinality({i \in 1..Len(list) : list[i] = c})

\* C12 -- presenting a payload never ends in an error state, whatever the
\* types of its fields (cases not a list, values of summary.entities not
\* lists, individual_citation_analysis not a list).
C12_NeverRaises ==
  /\ shown # TypeError
  /\ sectionView # TypeError
  /\ inlineView # TypeError

\* C13 -- the title of a case is its title, else the case name of its
\* summary, else "Unknown Case"; a case without title, case_name and
\* summary.case is titled "Unknown Case"; the Results component gives the
\* same case the same title.
C13_TitleResolution ==
  shown[1] = "cases" =>
    \A i \in 1..Len(shown[2]) :
      LET c == shown[2][i].case
      IN  /\ shown[2][i].title =
               IF c.title # "" THEN c.title
               ELSE IF c.summary_case # "" THEN c.summary_case
               ELSE "Unknown Case"
          /\ (c.title = "" /\ c.case_name = "" /\ c.summary_case = "")
               => shown[2][i].title = "Unknown Case"
          /\ ResultsCaseTitle(c) = shown[2][i].title

\* the same letter, in either case
SameLetter(x, y) ==
  \/ x = y
  \/ {x, y} \in {{"H", "h"}, {"C", "c"}, {"S", "s"}}

\* part occurs in str when the case of letters is ignored
ContainsIgnoringCase(str, part) ==
  \E k \in 0..(Len(str) - Len(part)) :
    \A i \in 1..Len(part) : SameLetter(str[k + i], part[i])

\* C15 -- the view holds a case exactly when its court (the court of the
\* case, else the court of its summary) contains the court filter, case
\* ignored, and its citation count (0 when absent) is at least the minimum;
\* with an empty filter and minimum 0 every case passes; every case is in
\* the view as often as in the received list, or not at all.
C15_Filter ==
  shown[1] = "cases" =>
    /\ \A c \in SampleCases :
         Occurrences(ShownCases, c) =
           IF /\ ContainsIgnoringCase(CourtOf(c), courtFilter)
              /\ CountOf(c) >= NumberOf(minCitations)
             THEN Occurrences(ReceivedCases, c)
             ELSE 0
    /\ (courtFilter = << >> /\ NumberOf(minCitations) = 0)
         => Len(ShownCases) = Len(ReceivedCases)

\* C15 witness: of the received cases 3, 1, 5 only case 1 has a court
\* containing "h" and at least 1 citation.
C15_Witness ==
  /\ shown[1] = "cases"
  /\ courtFilter = <<"h">>
  /\ minCitations = Str("1")
  /\ Len(ReceivedCases) = 3
  /\ Len(ShownCases) = 1
  /\ ShownCases[1].case_id = "1"

\* a is before b in the lexicographic order of digit strings, or equal
LexLeq(a, b) ==
  \/ \E k \in 1..Len(b) :
       /\ k <= Len(a) + 1
       /\ \A i \in 1..(k - 1) : a[i] = b[i]
       /\ \/ k = Len(a) + 1
          \/ \E m, n \in 1..Len(Digits) :
               Digits[m] = a[k] /\ Digits[n] = b[k] /\ m < n
  \/ a = b

\* C16 -- under Newest the shown cases are in descending and under Oldest
\* in ascending lexicographic order of their dates (the date of the case,
\* else of its first related precedent), and in both directions every
\* case with an empty date comes after every case with a date.
C16_DateSort ==
  (shown[1] = "cases" /\ sortBy \in {"Newest", "Oldest"}) =>
    \A i, j \in 1..Len(ShownCases) :
      i < j =>
        LET di == getCaseDate(ShownCases[i])
            dj == getCaseDate(ShownCases[j])
        IN  /\ di = << >> => dj = << >>
            /\ (di # << >> /\ dj # << >>) =>
                 IF sortBy = "Newest" THEN LexLeq(dj, di) ELSE LexLeq(di, dj)

\* C17 -- under Most Cited the shown cases are in descending and under
\* Least Cited in ascending order of citation count, and cases with equal
\* counts keep the relative order they have in the received list.
C17_StableCitationSort ==
  (shown[1] = "cases" /\ sortBy \in {"Most Cited", "Least Cited"}) =>
    LET Keep(c) == PassesFilter(c, courtFilter, minCitations)
        kept == SelectSeq(ReceivedCases, Keep)
        n == Len(kept)
    IN  \E perm \in [1..n -> 1..n] :
          /\ \A i, j \in 1..n : i # j => perm[i] # perm[j]
          /\ ShownCases = [i \in 1..n |-> kept[perm[i]]]
          /\ \A i, j \in 1..n :
               i < j =>
                 /\ IF sortBy = "Most Cited"
                      THEN CountOf(kept[perm[i]]) >= CountOf(kept[perm[j]])
                      ELSE CountOf(kept[perm[i]]) <= CountOf(kept[perm[j]])
                 /\ CountOf(kept[perm[i]]) = CountOf(kept[perm[j]])
                      => perm[i] < perm[j]

\* C17 witness: cases 3, 5, 1 with counts 2, 1, 2 under Most Cited are
\* shown as 3, 1, 5.
C17_Witness ==
  /\ shown[1] = "cases"
  /\ sortBy = "Most Cited"
  /\ Len(ReceivedCases) = 3
  /\ ReceivedCases[1].case_id = "3"
  /\ ReceivedCases[2].case_id = "5"
  /\ ReceivedCases[3].case_id = "1"
  /\ Len(ShownCases) = 3
  /\ ShownCases[1].case_id = "3"
  /\ ShownCases[2].case_id = "1"
  /\ ShownCases[3].case_id = "5"

\* C18 -- the displayed cases are exactly the elements of the filtered
\* and sorted list at the positions (page-1)*pageSize up to but excluding
\* page*pageSize (counted from 0).
C18_Pagination ==
  shown[1] = "cases" =>
    LET all == sortedAndFilteredCases(ReceivedCases, courtFilter,
                                      minCitations, sortBy)
        last == IF page * perPage < Len(all) THEN page * perPage ELSE Len(all)
    IN  ShownCases = SubSeq(all, (page - 1) * perPage + 1, last)

\* number of received cases passing the current filter
PassingCount ==
  IF result # NullResult /\ result[2][1] = "array"
    THEN Cardinality({i \in 1..Len(ReceivedCases) :
                        PassesFilter(ReceivedCases[i], courtFilter,
                                     minCitations)})
    ELSE 0

\* C19 -- in every reachable state 1 <= page <= max(1, ceil(count/pageSize)),
\* count being the number of cases passing the current filter, and after
\* every change of the court filter, the minimum-citation filter or the
\* sort key page equals 1.
C19_PageInvariant ==
  /\ [](/\ 1 <= page
        /\ page <= Max({1, (PassingCount + perPage - 1) \div perPage}))
  /\ [][(\/ courtFilter' # courtFilter
         \/ minCitations' # minCitations
         \/ sortBy' # sortBy) => page' = 1]_vars

\* C19 witness: with cases on screen the court filter and the sort key have
\* been changed.
C19_Witness ==
  /\ shown[1] = "cases"
  /\ Len(ShownCases) > 0
  /\ courtFilter = <<"h">>
  /\ sortBy = "Oldest"
  /\ page = 1

(***************************************************************************)
(* Properties of the session (App.js, ChatInterface.js)                    *)
(***************************************************************************)
\* a request is answered with 401 in this step: the query submission, the
\* history listing or a history lookup
AuthExpiredStep ==
  \/ HandleSubmitSettle("http401")
  \/ FetchHistorySettle("http401")
  \/ \E i \in 1..MaxCalls : HistoryLookupSettle(i, "http401")

\* C21 -- after a 401 from the query submission, the history listing or a
\* history lookup, query submission is blocked: the submit control is
\* disabled whatever the query text, which the code does through
\* isAuthenticated = false, until the user has authenticated again.
C21_SubmitBlockedAfterAuthExpired ==
  [][AuthExpiredStep => ~isAuthenticated']_vars

\* C22 -- after logout nothing obtained during the ended session remains
\* in client state: the history list and the displayed results are empty.
C22_SessionScoped ==
  [][HandleLogout => (history' = << >> /\ results' = NoResults)]_vars

\* C24 -- the history list held by the client has the entries in the order
\* received from the server, whatever was displayed or clicked: the
\* newest-first order is applied to a copy.
C24_HistoryReadOnly ==
  history \in {<< >>, ServerHistory}

(***************************************************************************)
(* Properties of the view actions of QueryParser                           *)
(***************************************************************************)
\* a filter change, a sort change, a per-page change or an expand toggle
ViewAction ==
  \/ \E v \in CourtInputs : SetCourtFilter(v)
  \/ \E v \in MinCitationInputs : SetMinCitations(v)
  \/ \E key \in SortKeys : SetSortBy(key)
  \/ \E n \in PerPageOptions : SetPerPage(n)
  \/ \E id \in SectionKeys : ToggleExpanded(id)

\* C23 -- the received case list stays as received: the result state after
\* a response holds the list of the response, and a filter change, a sort
\* change, a per-page change or an expand toggle leaves result.cases with
\* the same elements in the same order.
C23_CanonicalRecordsKept ==
  /\ [][\A res \in ParserResults : ParserSubmitOk(res) => result' = res]_vars
  /\ [][ViewAction => result' = result]_vars

\* the cards on screen are all the received cases, in another order
C23_Witness ==
  /\ shown[1] = "cases"
  /\ Len(shown[2]) = Len(ReceivedCases)
  /\ ShownCases # ReceivedCases
  /\ sortBy # "Newest"

\* the sections on screen that have an expand button: <<card, kind>>
SectionsOnScreen ==
  {sec \in (1..Len(shown[2])) \X {"cits", "prec"} :
     SectionKey(shown[2][sec[1]].case, sec[2]) \in ButtonsOf(shown[2][sec[1]].case)}

\* the sections on screen shown expanded under the disclosure map e
ExpandedSections(e) ==
  {sec \in SectionsOnScreen : SectionKey(shown[2][sec[1]].case, sec[2]) \in e}

\* the sections whose expanded state differs between the maps e and f
Flipped(e, f) ==
  (ExpandedSections(e) \ ExpandedSections(f))
    \cup (ExpandedSections(f) \ ExpandedSections(e))

\* C25 -- disclosure state is per item: a toggle flips the expanded state
\* of exactly one section of one case on screen, for every case list,
\* lists with cases lacking a case_id included.
C25_DisclosurePerItem ==
  [][(\E id \in SectionKeys : ToggleExpanded(id))
       => Cardinality(Flipped(expanded, expanded')) = 1]_vars

\* C26 -- an expand/collapse toggle changes only the disclosure map: it
\* leaves the court filter, the minimum citations, the sort key, the page
\* and the page size unchanged, and the render it causes does not run the
\* filter/sort computation again.
C26_ToggleOnlyDisclosure ==
  [][(\E id \in SectionKeys : ToggleExpanded(id))
       => /\ UNCHANGED <<courtFilter, minCitations, sortBy, page, perPage>>
          /\ ~recomputed']_vars

(***************************************************************************)
(* Properties of the displayed results and error (App.js, ChatInterface.js)*)
(***************************************************************************)
\* no submission, by-query lookup, history listing or upload is in flight
NoRequestInFlight ==
  /\ submitReq = NoRequest
  /\ historyReqs = 0
  /\ pdfUploads = 0
  /\ \A i \in 1..Len(calls) : calls[i].status # "pending"

\* the error on screen comes from a history-entry click or a submission
ErrorOfClickOrSubmit ==
  error \in {MsgNoPrevious, MsgLookupFailed, MsgPleaseLogIn, MsgSubmitFailed}

\* C27 -- result/error consistency: with no request in flight, after any
\* interleaving of history-entry clicks, query submissions and PDF-analysis
\* completions, an error of a click or a submission is never on screen
\* together with results.
C27_ResultErrorConsistent ==
  (NoRequestInFlight /\ ErrorOfClickOrSubmit) => results = NoResults

(***************************************************************************)
(* Properties of the submission handlers (App.js, QueryParser.js)          *)
(***************************************************************************)
\* C28 -- submission lifecycle, for handleSubmit of App and of QueryParser:
\* a blank query issues no request; any other query sets loading, clears
\* results and error and issues the request; the step in which the request
\* settles, by success or by any error, leaves loading false; and loading
\* is true only while a submission is in flight.
C28_SubmissionLifecycle ==
  /\ [](loading => submitReq # NoRequest)
  /\ [](parserLoading => parserReq # NoRequest)
  /\ [][submitReq' # submitReq =>
          IF submitReq = NoRequest
            THEN /\ Trim(query) # ""
                 /\ loading' /\ results' = NoResults /\ error' = NULL
            ELSE submitReq' = NoRequest /\ ~loading']_vars
  /\ [][ParserHandleSubmit =>
          IF Trim(parserQuery) = ""
            THEN parserReq' = NoRequest /\ ~parserLoading'
            ELSE /\ parserReq' # NoRequest
                 /\ parserLoading' /\ result' = NullResult
                 /\ parserError' = ""]_vars
  /\ [][(parserReq # NoRequest /\ parserReq' = NoRequest)
          => ~parserLoading']_vars

\* a submission of App has succeeded and one of QueryParser has failed
C28_Witness ==
  /\ results # NoResults /\ ~loading /\ submitReq = NoRequest
  /\ parserError \in {ErrorMessage(o) : o \in ParserFailures}
  /\ ~parserLoading /\ parserReq = NoRequest

(***************************************************************************)
(* Properties of the two CitationsSection components                       *)
(***************************************************************************)
\* C29 -- the standalone CitationsSection and the CitationsSection defined
\* inside App compute the same citation data for every payload: same
\* precedence of parsed_data over the raw text, same fence-then-braces
\* strategy, null in the same cases.
C29_SameCitationData ==
  (sectionView # NotRendered /\ inlineView # NotRendered)
    => sectionData = inlineData

\* both components have extracted data from the fenced raw_result of a
\* payload that also carries another text as verification_details
C29_Witness ==
  /\ sectionView # NotRendered /\ inlineView # NotRendered
  /\ content # Undefined
  /\ Falsy(parsed_data(content))
  /\ IsText(raw_result(content)) /\ IsText(verification_details(content))
  /\ raw_result(content) # verification_details(content)
  /\ FenceMatch(raw_result(content)[2]) # << >>
  /\ inlineData # NullData

(***************************************************************************)
(* Properties of the history sidebar (ChatInterface.js)                    *)
(***************************************************************************)
\* list is what the sidebar must show for the listing fetched: at most
\* SidebarLimit entries, newest first, each an entry of the listing and no
\* more often than the listing holds it, and every entry of the listing
\* later than a listed one is listed
SidebarCorrect(fetched, list) ==
  /\ Len(list) = IF Len(fetched) < SidebarLimit
                   THEN Len(fetched) ELSE SidebarLimit
  /\ \A i \in 1..(Len(list) - 1) : list[i].timestamp >= list[i + 1].timestamp
  /\ \A i \in 1..Len(list) :
       Occurrences(list, list[i]) <= Occurrences(fetched, list[i])
  /\ \A j \in 1..Len(fetched) :
       (\E i \in 1..Len(list) : list[i].timestamp < fetched[j].timestamp)
         => Occurrences(list, fetched[j]) = Occurrences(fetched, fetched[j])

\* C30 -- the history sidebar shows at most 10 entries: the 10 entries of
\* the fetched listing with the latest timestamps, newest first, each an
\* entry of the listing and none twice.
C30_SidebarLatestTen ==
  [][\A fetched \in HistoryLists :
       FetchHistorySettleWith("ok", fetched)
         => SidebarCorrect(fetched, sidebar')]_vars

\* a listing longer than the sidebar is on screen
C30_Witness ==
  /\ Len(history) > SidebarLimit
  /\ Len(sidebar) = SidebarLimit
  /\ sidebar[1].timestamp > sidebar[SidebarLimit].timestamp
  /\ history[Len(history)] \notin {sidebar[i] : i \in 1..Len(sidebar)}


=============================================================================
